---- MODULE Spec2Model ----
(***************************************************************************)
(* Endless Dodge (src/game.c): the simulation core of the game as a state  *)
(* machine.  One frame of main()'s loop is the sequence                    *)
(*   LoopTop -> events (PollKeyDown / PollKeyUp / PollQuit)* -> PollEmpty  *)
(*           -> UpdateGame -> UpdateWindowTitle -> RenderGame -> LoopTop.  *)
(*                                                                         *)
(* Number representation.  The C code computes in float; the model uses    *)
(* exact fixed point:                                                      *)
(*   positions and sizes   micro-pixels      (PX per pixel)                *)
(*   dt, elapsedTime       milliseconds                                    *)
(*   obstacle speed        milli-pixels per second                         *)
(*   spawnIntervalMs       micro-seconds     (MS per millisecond),         *)
(*                         the decay product truncated to that unit        *)
(*   SDL_GetTicks()        milliseconds                                    *)
(***************************************************************************)
EXTENDS Integers, Sequences, FiniteSets, TLC

(* ------------------------------ units --------------------------------- *)
PX == 1000 * 1000      \* micro-pixels in one pixel
MS == 10 * 100         \* spawn-interval units in one millisecond

(* --------------------------- configuration ---------------------------- *)
WINDOW_WIDTH  == 800
WINDOW_HEIGHT == 600
PLAYER_WIDTH  == 80
PLAYER_HEIGHT == 20
PLAYER_SPEED  == 500
PLAYER_BOTTOM_MARGIN == 40
OBSTACLE_MIN_WIDTH == 40
OBSTACLE_MAX_WIDTH == 140
OBSTACLE_HEIGHT == 20
OBSTACLE_BASE_SPEED == 200
\* OBSTACLE_SPEED_INCREMENT 0.03f as a fraction
OBSTACLE_SPEED_INCREMENT_NUM == 3
OBSTACLE_SPEED_INCREMENT_DEN == 100
OBSTACLE_BASE_INTERVAL == 700
OBSTACLE_MIN_INTERVAL == 140
\* OBSTACLE_INTERVAL_DECAY 0.985f in thousandths
OBSTACLE_INTERVAL_DECAY == 985
DECAY_DEN == 10 * 100
\* points per second of the time score, (int)(dt * 20.0f)
SCORE_PER_SECOND == 20
\* points for an obstacle that leaves the screen
DODGE_BONUS == 10
\* if (dt > 0.1f) dt = 0.1f, in milliseconds
MAX_DT_MS == 100

(* ------------------------------ bounds -------------------------------- *)
\* Slots of the obstacle pool.  MAX_OBSTACLES is 64 in the source; the pool
\* of the model is scaled down, every loop over it still runs over all slots.
MAX_OBSTACLES == 2
\* SDL_GetTicks() is followed up to this many milliseconds.
MaxClock == 4000
\* Frames of the main loop that are explored step by step.
MaxFrames == 5
\* What the environment does besides letting a frame of MAX_DT_MS pass: input
\* events that change the game (the others are unlimited) and frames of
\* another duration, together.
MaxChoices == 3

\* Frames of the long run SpecLong follows.
MaxLongFrames == 1200

\* SDL_GetTicks() is followed up to this many milliseconds in the paced run.
MaxPacedClock == 1000

Slots == 0 .. (MAX_OBSTACLES - 1)

\* Wall-clock duration of each frame of the long run, in ms: longer than
\* any spawn interval, so that every frame finds the spawn timer expired.
LongDelta == 3 * 250

\* Wall-clock durations of one frame, in ms (vsync pacing and frame hitches).
FrameDeltas == {16, 100, 750}

\* Wall-clock durations of one frame of the paced run, in ms (a display of
\* 50 or 20 frames a second).
PacedDeltas == {20, 50}

\* Lengths, in frames, of the input-free stretches FastForward runs through.
Stretches == {33, 37}

\* rand() / RAND_MAX sampled as n / RAND_DEN; RandDraws holds the numerators
\* of two consecutive results (the width draw, then the x draw).
RAND_DEN == 1 + 2
RandDraws == {<<3, 1>>, <<1, 3>>}

\* Contents of highscore.dat.
NoFile    == [kind |-> "absent", value |-> 0]
ShortFile == [kind |-> "short",  value |-> 0]
IntFile(v) == [kind |-> "int", value |-> v]
StartFiles == {NoFile, ShortFile, IntFile(-5), IntFile(68), IntFile(500)}

Keys == {"LEFT", "RIGHT", "RETURN", "P", "ESCAPE", "OTHER"}

VARIABLES
    pc,               \* position in main(): "loop","events","update","title","render","done"
    ticks,            \* SDL_GetTicks()
    lastTicks,        \* main's lastTicks
    dt,               \* main's dt of the current frame (ms, clamped)
    frames,           \* frames begun so far
    choices,          \* input events that changed the game, and frames of
                      \* another duration than MAX_DT_MS, so far
    running,          \* game.running
    state,            \* game.state
    player,           \* game.player
    obstacles,        \* game.obstacles
    score,            \* game.score
    highScore,        \* game.highScore
    elapsedTime,      \* game.elapsedTime (ms)
    lastSpawnTicks,   \* game.lastSpawnTicks
    spawnIntervalMs,  \* game.spawnIntervalMs
    leftPressed,      \* game.leftPressed
    rightPressed,     \* game.rightPressed
    file,             \* contents of highscore.dat
    saves,            \* arguments of the save_high_score calls so far
    title             \* the window title last set

\* the fields of Game that the simulation owns
sim == <<player, obstacles, score, highScore, elapsedTime, lastSpawnTicks,
         spawnIntervalMs>>

loopvars == <<pc, ticks, lastTicks, dt, frames>>

vars == <<loopvars, choices, running, state, sim, leftPressed, rightPressed, file, saves, title>>

\* the Game structure (with the file and the save log) as one value
Game ==
    [running |-> running, state |-> state, player |-> player,
     obstacles |-> obstacles, score |-> score, highScore |-> highScore,
     elapsedTime |-> elapsedTime, lastSpawnTicks |-> lastSpawnTicks,
     spawnIntervalMs |-> spawnIntervalMs, leftPressed |-> leftPressed,
     rightPressed |-> rightPressed, file |-> file, saves |-> saves]

\* the next state holds the Game value g
SetGame(g) ==
    /\ running' = g.running
    /\ state' = g.state
    /\ player' = g.player
    /\ obstacles' = g.obstacles
    /\ score' = g.score
    /\ highScore' = g.highScore
    /\ elapsedTime' = g.elapsedTime
    /\ lastSpawnTicks' = g.lastSpawnTicks
    /\ spawnIntervalMs' = g.spawnIntervalMs
    /\ leftPressed' = g.leftPressed
    /\ rightPressed' = g.rightPressed
    /\ file' = g.file
    /\ saves' = g.saves

(* -------------------------- utility functions -------------------------- *)
\* clampf without the lower bound
clampf_no_min(v, min, max) ==
    IF v > max THEN max ELSE v

clampf(v, min, max) ==
    IF v < min THEN min ELSE IF v > max THEN max ELSE v

\* the overlap test with >= and <= for > and <
rects_intersect_open(x1, y1, w1, h1, x2, y2, w2, h2) ==
    ~ (\/ x1 >= x2 + w2
       \/ x1 + w1 <= x2
       \/ y1 >= y2 + h2
       \/ y1 + h1 <= y2)

rects_intersect(x1, y1, w1, h1, x2, y2, w2, h2) ==
    ~ (\/ x1 > x2 + w2
       \/ x1 + w1 < x2
       \/ y1 > y2 + h2
       \/ y1 + h1 < y2)

\* min + t * (max - min) for t = n / RAND_DEN
rand_range(min, max, n) ==
    min + ((max - min) \div RAND_DEN) * n + (((max - min) % RAND_DEN) * n) \div RAND_DEN

(* -------------------------- high score storage ------------------------- *)
load_high_score(f) ==
    IF f.kind = "int" THEN f.value ELSE 0

\* The files save_high_score(path, v) can leave: fopen fails (unchanged),
\* fwrite fails after the truncating open, or the value is written.
save_high_score(f, v) == {f, ShortFile, IntFile(v)}

(* ------------------------------ game setup ----------------------------- *)
reset_obstacles(obs) ==
    [i \in Slots |-> [obs[i] EXCEPT !.active = FALSE]]

init_player ==
    [x |-> ((WINDOW_WIDTH - PLAYER_WIDTH) * PX) \div 2,
     y |-> (WINDOW_HEIGHT - PLAYER_HEIGHT - PLAYER_BOTTOM_MARGIN) * PX,
     w |-> PLAYER_WIDTH * PX,
     h |-> PLAYER_HEIGHT * PX,
     speed |-> PLAYER_SPEED]

\* reset_gameplay without the line that restores the spawn interval
reset_gameplay_keeps_interval(g, now) ==
    [g EXCEPT !.score = 0,
              !.elapsedTime = 0,
              !.lastSpawnTicks = now,
              !.player = init_player,
              !.obstacles = reset_obstacles(g.obstacles)]

reset_gameplay(g, now) ==
    [g EXCEPT !.score = 0,
              !.elapsedTime = 0,
              !.spawnIntervalMs = OBSTACLE_BASE_INTERVAL * MS,
              !.lastSpawnTicks = now,
              !.player = init_player,
              !.obstacles = reset_obstacles(g.obstacles)]

ZeroObstacle == [x |-> 0, y |-> 0, w |-> 0, h |-> 0, speed |-> 0, active |-> FALSE]

\* init_game: memset, running, MENU, flags, load_high_score, reset_gameplay;
\* then main reads lastTicks
Init ==
    /\ pc = "loop"
    /\ ticks = 0
    /\ lastTicks = 0
    /\ dt = 0
    /\ frames = 0
    /\ choices = 0
    /\ running = TRUE
    /\ state = "MENU"
    /\ leftPressed = FALSE
    /\ rightPressed = FALSE
    /\ file \in StartFiles
    /\ highScore = load_high_score(file)
    /\ score = 0
    /\ elapsedTime = 0
    /\ spawnIntervalMs = OBSTACLE_BASE_INTERVAL * MS
    /\ lastSpawnTicks = ticks
    /\ player = init_player
    /\ obstacles = [i \in Slots |-> ZeroObstacle]
    /\ saves = <<>>
    /\ title = [score |-> 0, high |-> 0, state |-> "NONE"]

(* ---------------------------- obstacle logic --------------------------- *)
\* the scan with idx starting at 0 for -1
find_slot_from_zero(obs) ==
    IF \E i \in Slots : ~obs[i].active
    THEN CHOOSE i \in Slots :
             /\ ~obs[i].active
             /\ \A j \in Slots : j < i => obs[j].active
    ELSE 0

\* the scan kept going to the last inactive slot
find_slot_last(obs) ==
    IF \E i \in Slots : ~obs[i].active
    THEN CHOOSE i \in Slots :
             /\ ~obs[i].active
             /\ \A j \in Slots : j > i => obs[j].active
    ELSE -1

\* the slot the scan of spawn_obstacle stops at, -1 when every slot is active
find_slot(obs) ==
    IF \E i \in Slots : ~obs[i].active
    THEN CHOOSE i \in Slots :
             /\ ~obs[i].active
             /\ \A j \in Slots : j < i => obs[j].active
    ELSE -1

\* the speed without the boost
spawn_speed_base(elapsed) == OBSTACLE_BASE_SPEED * 1000

\* OBSTACLE_BASE_SPEED + OBSTACLE_SPEED_INCREMENT * elapsedTime * OBSTACLE_BASE_SPEED
spawn_speed(elapsed) ==
    OBSTACLE_BASE_SPEED * 1000
    + (OBSTACLE_SPEED_INCREMENT_NUM * elapsed * OBSTACLE_BASE_SPEED)
          \div OBSTACLE_SPEED_INCREMENT_DEN

\* the decay without the floor
decay_interval_no_floor(iv) ==
    (iv * OBSTACLE_INTERVAL_DECAY) \div DECAY_DEN

\* spawnIntervalMs *= OBSTACLE_INTERVAL_DECAY, floored at OBSTACLE_MIN_INTERVAL
decay_interval(iv) ==
    LET d == (iv * OBSTACLE_INTERVAL_DECAY) \div DECAY_DEN
    IN  IF d < OBSTACLE_MIN_INTERVAL * MS THEN OBSTACLE_MIN_INTERVAL * MS ELSE d

\* the obstacle written into the slot found
new_obstacle(w, x, elapsed) ==
    [x |-> x, y |-> 0 - OBSTACLE_HEIGHT * PX, w |-> w, h |-> OBSTACLE_HEIGHT * PX,
     speed |-> spawn_speed(elapsed), active |-> TRUE]

\* o->w and o->x for the draws n of rand()
spawn_width(n) == rand_range(OBSTACLE_MIN_WIDTH * PX, OBSTACLE_MAX_WIDTH * PX, n[1])
spawn_x(n) == rand_range(0, WINDOW_WIDTH * PX - spawn_width(n), n[2])

\* spawn_obstacle: the possible results, one per draw of rand()
spawn_obstacle(g, now) ==
    LET idx == find_slot(g.obstacles)
    IN  IF idx = -1
        THEN {g}
        ELSE { [g EXCEPT !.obstacles[idx] =
                             new_obstacle(spawn_width(n), spawn_x(n), g.elapsedTime),
                         !.lastSpawnTicks = now,
                         !.spawnIntervalMs = decay_interval(g.spawnIntervalMs)] :
               n \in RandDraws }

\* the loop body without the off-screen branch
advance_obstacle_stays(o, d) ==
    IF ~o.active THEN o ELSE [o EXCEPT !.y = o.y + o.speed * d]

\* the body of the loop of update_obstacles for one slot
advance_obstacle(o, d) ==
    IF ~o.active THEN o
    ELSE LET y1 == o.y + o.speed * d
         IN  IF y1 > WINDOW_HEIGHT * PX
             THEN [o EXCEPT !.y = y1, !.active = FALSE]
             ELSE [o EXCEPT !.y = y1]

\* the slots update_obstacles deactivates
bottomed_out(obs, d) ==
    {i \in Slots : obs[i].active /\ ~advance_obstacle(obs[i], d).active}

update_obstacles(g, d) ==
    [g EXCEPT !.obstacles = [i \in Slots |-> advance_obstacle(g.obstacles[i], d)],
              !.score = g.score + DODGE_BONUS * Cardinality(bottomed_out(g.obstacles, d))]

check_collisions(g) ==
    \E i \in Slots :
        /\ g.obstacles[i].active
        /\ rects_intersect(g.player.x, g.player.y, g.player.w, g.player.h,
                           g.obstacles[i].x, g.obstacles[i].y,
                           g.obstacles[i].w, g.obstacles[i].h)

(* ------------------------------ game update ---------------------------- *)
update_player(g, d) ==
    LET dir == (IF g.rightPressed THEN 1 ELSE 0) - (IF g.leftPressed THEN 1 ELSE 0)
        x1  == g.player.x + dir * g.player.speed * d * 1000
    IN  [g EXCEPT !.player.x = clampf(x1, 0, WINDOW_WIDTH * PX - g.player.w)]

\* the time points with dt taken in tenths of a second
time_points_per_tenth(d) == (d * SCORE_PER_SECOND) \div 100

\* (int)(dt * 20.0f)
time_points(d) == (d * SCORE_PER_SECOND) \div 1000

\* the spawn check with the time since the last spawn taken in seconds
spawn_due_in_seconds(now, last, iv) == ((now - last) \div 1000) * MS >= iv

\* the spawn check of update_game
spawn_due(now, last, iv) == (now - last) * MS >= iv

\* the comparison with >= for >
beats_high_score_or_ties(s, h) == s >= h

\* the comparison the wrong way round
beats_high_score_reversed(s, h) == s < h

\* score > highScore at game over
beats_high_score(s, h) == s > h

\* the game-over branch with the high score kept only when the write succeeded
game_over_commits_on_success(g) ==
    IF beats_high_score(g.score, g.highScore)
    THEN { [g EXCEPT !.state = "GAME_OVER",
                     !.highScore = IF f = IntFile(g.score) THEN g.score ELSE g.highScore,
                     !.file = f,
                     !.saves = Append(g.saves, g.score)] :
           f \in save_high_score(g.file, g.score) }
    ELSE { [g EXCEPT !.state = "GAME_OVER"] }

\* the game-over branch of update_game
game_over(g) ==
    IF beats_high_score(g.score, g.highScore)
    THEN { [g EXCEPT !.state = "GAME_OVER",
                     !.highScore = g.score,
                     !.file = f,
                     !.saves = Append(g.saves, g.score)] :
           f \in save_high_score(g.file, g.score) }
    ELSE { [g EXCEPT !.state = "GAME_OVER"] }

\* the early return taken in MENU only
simulated_unless_menu(s) == s # "MENU"

\* the early return not taken in GAME_OVER
simulated_after_game_over(s) == s \in {"PLAYING", "GAME_OVER"}

\* the states in which update_game does not return at once
simulated(s) == s = "PLAYING"

\* update_game: the possible results (one per draw of rand() and outcome of
\* the file write); now is the value SDL_GetTicks() returns in it
update_game(g, d, now) ==
    IF ~simulated(g.state) THEN {g}
    ELSE LET g1 == [g EXCEPT !.elapsedTime = g.elapsedTime + d,
                             !.score = g.score + time_points(d)]
             g2 == update_obstacles(update_player(g1, d), d)
             g3s == IF spawn_due(now, g2.lastSpawnTicks, g2.spawnIntervalMs)
                    THEN spawn_obstacle(g2, now)
                    ELSE {g2}
         IN  UNION { IF check_collisions(g3) THEN game_over(g3) ELSE {g3} : g3 \in g3s }

(* ----------------------------- input handling -------------------------- *)
\* the RETURN / KP_ENTER case
confirm(g, now) ==
    IF g.state = "MENU" \/ g.state = "GAME_OVER"
    THEN [reset_gameplay(g, now) EXCEPT !.state = "PLAYING"]
    ELSE g

\* the P case with PAUSED entered from any state
pause_from_any(g) ==
    IF g.state = "PAUSED" THEN [g EXCEPT !.state = "PLAYING"]
    ELSE [g EXCEPT !.state = "PAUSED"]

\* the P case
pause(g) ==
    IF g.state = "PLAYING" THEN [g EXCEPT !.state = "PAUSED"]
    ELSE IF g.state = "PAUSED" THEN [g EXCEPT !.state = "PLAYING"]
    ELSE g

handle_key_down(g, key, now) ==
    CASE key = "LEFT"   -> [g EXCEPT !.leftPressed = TRUE]
      [] key = "RIGHT"  -> [g EXCEPT !.rightPressed = TRUE]
      [] key = "RETURN" -> confirm(g, now)
      [] key = "P"      -> pause(g)
      [] key = "ESCAPE" -> [g EXCEPT !.running = FALSE]
      [] OTHER          -> g

handle_key_up(g, key) ==
    CASE key = "LEFT"   -> [g EXCEPT !.leftPressed = FALSE]
      [] key = "RIGHT"  -> [g EXCEPT !.rightPressed = FALSE]
      [] OTHER          -> g

\* an event handler leaves the Game value g
Handled(g) ==
    /\ g # Game => choices < MaxChoices
    /\ choices' = IF g # Game THEN choices + 1 ELSE choices
    /\ SetGame(g)
    /\ UNCHANGED <<loopvars, title>>

\* process_events: SDL_PollEvent delivers an SDL_KEYDOWN
PollKeyDown(key, repeat) ==
    /\ pc = "events"
    /\ Handled(IF repeat THEN Game ELSE handle_key_down(Game, key, ticks))

\* process_events: SDL_PollEvent delivers an SDL_KEYUP
PollKeyUp(key) ==
    /\ pc = "events"
    /\ Handled(handle_key_up(Game, key))

\* process_events: SDL_PollEvent delivers SDL_QUIT
PollQuit ==
    /\ pc = "events"
    /\ Handled([Game EXCEPT !.running = FALSE])

\* process_events: SDL_PollEvent returns 0, the loop ends
PollEmpty ==
    /\ pc = "events"
    /\ pc' = "update"
    /\ UNCHANGED <<ticks, lastTicks, dt, frames, choices, running, state, sim, leftPressed,
                   rightPressed, file, saves, title>>

(* ------------------------------- main loop ----------------------------- *)
\* if (dt > 0.1f) dt = 0.1f
clamp_dt(deltaMs) == IF deltaMs > MAX_DT_MS THEN MAX_DT_MS ELSE deltaMs

\* the head of a frame of a loop that does not test game.running
LoopTop_unconditional ==
    /\ pc = "loop"
    /\ frames < MaxFrames
    /\ frames' = frames + 1
    /\ lastTicks' = ticks
    /\ dt' = IF ticks - lastTicks > MAX_DT_MS THEN MAX_DT_MS ELSE ticks - lastTicks
    /\ pc' = "events"
    /\ UNCHANGED <<ticks, choices, running, state, sim, leftPressed,
                   rightPressed, file, saves, title>>

\* while (game.running): the head of a frame, up to the dt clamp
LoopTop ==
    /\ pc = "loop"
    /\ running
    /\ frames < MaxFrames
    /\ frames' = frames + 1
    /\ lastTicks' = ticks
    /\ dt' = clamp_dt(ticks - lastTicks)
    /\ pc' = "events"
    /\ UNCHANGED <<ticks, choices, running, state, sim, leftPressed,
                   rightPressed, file, saves, title>>

\* the loop condition fails: shutdown_sdl and return
Shutdown ==
    /\ pc = "loop"
    /\ ~running
    /\ pc' = "done"
    /\ UNCHANGED <<ticks, lastTicks, dt, frames, choices, running, state, sim, leftPressed,
                   rightPressed, file, saves, title>>

UpdateGame ==
    /\ pc = "update"
    /\ pc' = "title"
    /\ \E g \in update_game(Game, dt, ticks) : SetGame(g)
    /\ UNCHANGED <<ticks, lastTicks, dt, frames, choices, title>>

\* the title update_window_title formats
window_title(g) == [score |-> g.score, high |-> g.highScore, state |-> g.state]

UpdateWindowTitle ==
    /\ pc = "title"
    /\ pc' = "render"
    /\ title' = window_title(Game)
    /\ UNCHANGED <<ticks, lastTicks, dt, frames, choices, running, state, sim, leftPressed,
                   rightPressed, file, saves>>

\* render_game reads the game only; the frame takes d ms of wall clock
RenderGame(d) ==
    /\ pc = "render"
    /\ ticks + d <= MaxClock
    /\ d # MAX_DT_MS => choices < MaxChoices
    /\ choices' = IF d # MAX_DT_MS THEN choices + 1 ELSE choices
    /\ ticks' = ticks + d
    /\ pc' = "loop"
    /\ UNCHANGED <<lastTicks, dt, frames, running, state, sim, leftPressed,
                   rightPressed, file, saves, title>>

\* update_game made no obstacle leave the screen and found no collision
quiet(g, r) ==
    /\ r.state = g.state
    /\ simulated(g.state) => bottomed_out(g.obstacles, clamp_dt(MAX_DT_MS)) = {}

\* The Game values after k whole frames of MAX_DT_MS each of a run (playing
\* or paused), without input, in each of which update_game is quiet (a frame
\* that is not ends the stretch: no value)
RECURSIVE quiet_frames(_, _, _)
quiet_frames(g, now, k) ==
    IF k = 0 THEN {g}
    ELSE IF ~g.running \/ g.state \notin {"PLAYING", "PAUSED"} THEN {}
    ELSE UNION { IF quiet(g, r) THEN quiet_frames(r, now + MAX_DT_MS, k - 1) ELSE {} :
                 r \in update_game(g, clamp_dt(MAX_DT_MS), now + MAX_DT_MS) }

\* RenderGame(MAX_DT_MS), LoopTop, PollEmpty, UpdateGame, UpdateWindowTitle,
\* k times over, as one step
FastForward(k) ==
    /\ pc = "render"
    /\ ticks + k * MAX_DT_MS <= MaxClock
    /\ \E g \in quiet_frames(Game, ticks, k) :
         /\ SetGame(g)
         /\ title' = window_title(g)
    /\ ticks' = ticks + k * MAX_DT_MS
    /\ lastTicks' = ticks + k * MAX_DT_MS
    /\ dt' = clamp_dt(MAX_DT_MS)
    /\ UNCHANGED <<pc, frames, choices>>

Next ==
    \/ LoopTop
    \/ \E key \in Keys, repeat \in BOOLEAN : PollKeyDown(key, repeat)
    \/ \E key \in Keys : PollKeyUp(key)
    \/ PollQuit
    \/ PollEmpty
    \/ UpdateGame
    \/ UpdateWindowTitle
    \/ \E d \in FrameDeltas : RenderGame(d)
    \/ \E k \in Stretches : FastForward(k)
    \/ Shutdown

Spec == Init /\ [][Next]_vars

(* ----------------- a long run without input, frame by frame ------------ *)
\* The first frame, with RETURN as its only event, as one step:
\* LoopTop, PollKeyDown("RETURN", FALSE), PollEmpty, UpdateGame, UpdateWindowTitle
StartRun ==
    /\ pc = "loop"
    /\ running
    /\ frames = 0
    /\ \E g \in update_game(handle_key_down(Game, "RETURN", ticks),
                             clamp_dt(ticks - lastTicks), ticks) :
         /\ SetGame(g)
         /\ title' = window_title(g)
    /\ pc' = "render"
    /\ lastTicks' = ticks
    /\ dt' = clamp_dt(ticks - lastTicks)
    /\ frames' = 1
    /\ UNCHANGED <<ticks, choices>>

\* A frame that took LongDelta ms, without input, as one step:
\* RenderGame(LongDelta), LoopTop, PollEmpty, UpdateGame, UpdateWindowTitle
HitchFrame ==
    /\ pc = "render"
    /\ running
    /\ state = "PLAYING"
    /\ frames < MaxLongFrames
    /\ \E g \in update_game(Game, clamp_dt(LongDelta), ticks + LongDelta) :
         /\ SetGame(g)
         /\ title' = window_title(g)
    /\ ticks' = ticks + LongDelta
    /\ lastTicks' = ticks + LongDelta
    /\ dt' = clamp_dt(LongDelta)
    /\ frames' = frames + 1
    /\ UNCHANGED <<pc, choices>>

NextLong ==
    \/ StartRun
    \/ HitchFrame

SpecLong == Init /\ [][NextLong]_vars

(* ------------- a run without input at a steady frame rate -------------- *)
\* A frame that took d ms, without input, as one step:
\* RenderGame(d), LoopTop, PollEmpty, UpdateGame, UpdateWindowTitle
PacedFrame(d) ==
    /\ pc = "render"
    /\ running
    /\ state = "PLAYING"
    /\ ticks + d <= MaxPacedClock
    /\ \E g \in update_game(Game, clamp_dt(d), ticks + d) :
         /\ SetGame(g)
         /\ title' = window_title(g)
    /\ ticks' = ticks + d
    /\ lastTicks' = ticks + d
    /\ dt' = clamp_dt(d)
    /\ frames' = frames + 1
    /\ UNCHANGED <<pc, choices>>

NextPaced ==
    \/ StartRun
    \/ \E d \in PacedDeltas : PacedFrame(d)

SpecPaced == Init /\ [][NextPaced]_vars

(* ============================== properties ============================= *)
\* geometry of the player rectangle p and an obstacle rectangle o, both closed
SharePoint(p, o) ==
    /\ o.x <= p.x + p.w
    /\ p.x <= o.x + o.w
    /\ o.y <= p.y + p.h
    /\ p.y <= o.y + o.h

InteriorOverlap(p, o) ==
    /\ o.x < p.x + p.w
    /\ p.x < o.x + o.w
    /\ o.y < p.y + p.h
    /\ p.y < o.y + o.h

EdgeTouch(p, o) == SharePoint(p, o) /\ ~InteriorOverlap(p, o)

Active(obs) == {i \in Slots : obs[i].active}

\* a step of UpdateGame
Tick == pc = "update" /\ pc' = "title"

\* a step of process_events that handles one event
Event == pc = "events" /\ pc' = "events"

\* the state after a key down, as the transition table gives it
TableKeyDown(s, key) ==
    IF key = "RETURN" /\ s \in {"MENU", "GAME_OVER"} THEN "PLAYING"
    ELSE IF key = "P" /\ s = "PLAYING" THEN "PAUSED"
    ELSE IF key = "P" /\ s = "PAUSED" THEN "PLAYING"
    ELSE s

\* C1: the state changes only by MENU->PLAYING and GAME_OVER->PLAYING (confirm),
\* PLAYING->PAUSED and PAUSED->PLAYING (pause), all while events are handled,
\* and PLAYING->GAME_OVER in a tick that finds a collision; every other
\* (state, input) pair, key up and key down, and a tick outside PLAYING,
\* leaves the state as it is.
C1_Transitions ==
    [][ /\ state' # state =>
             \/ /\ Event
                /\ <<state, state'>> \in {<<"MENU", "PLAYING">>, <<"GAME_OVER", "PLAYING">>,
                                          <<"PLAYING", "PAUSED">>, <<"PAUSED", "PLAYING">>}
             \/ /\ Tick
                /\ state = "PLAYING"
                /\ state' = "GAME_OVER"
                /\ \E i \in Active(obstacles') : SharePoint(player', obstacles'[i])
        /\ \A key \in Keys :
             /\ handle_key_down(Game, key, ticks).state = TableKeyDown(state, key)
             /\ handle_key_up(Game, key).state = state
        /\ Tick /\ state # "PLAYING" => state' = state
      ]_vars

\* C1 witness: input is being handled in GAME_OVER, reached by a collision,
\* with a move key held
C1_Witness ==
    /\ state = "GAME_OVER"
    /\ pc = "events"
    /\ leftPressed
    /\ elapsedTime > 0

\* C2: a confirm accepted in MENU or GAME_OVER leaves PLAYING with score 0,
\* elapsedTime 0, the base spawn interval, lastSpawnTicks at the current
\* time, the player centered at its initial place, every slot inactive and
\* the high score as it was.
C2_ConfirmResets ==
    [][ /\ state \in {"MENU", "GAME_OVER"} =>
             handle_key_down(Game, "RETURN", ticks).state = "PLAYING"
        /\ Event /\ state \in {"MENU", "GAME_OVER"} /\ state' = "PLAYING" =>
             /\ score' = 0
             /\ elapsedTime' = 0
             /\ spawnIntervalMs' = OBSTACLE_BASE_INTERVAL * MS
             /\ lastSpawnTicks' = ticks
             /\ 2 * player'.x + player'.w = WINDOW_WIDTH * PX
             /\ player'.y + player'.h + PLAYER_BOTTOM_MARGIN * PX = WINDOW_HEIGHT * PX
             /\ player'.w = PLAYER_WIDTH * PX
             /\ player'.h = PLAYER_HEIGHT * PX
             /\ Active(obstacles') = {}
             /\ highScore' = highScore
      ]_vars

\* C2 witness: a new run has just been started from GAME_OVER, after a run
\* that had spawned obstacles, decayed the interval and saved a high score
C2_Witness ==
    /\ state = "PLAYING"
    /\ pc = "events"
    /\ score = 0
    /\ elapsedTime = 0
    /\ spawnIntervalMs = OBSTACLE_BASE_INTERVAL * MS
    /\ Len(saves) = 1
    /\ \E i \in Slots : obstacles[i].y > 0

\* C3: a tick in PLAYING ends in GAME_OVER exactly when, after its updates
\* and its spawn check, an active obstacle shares a point with the player;
\* a tick in GAME_OVER changes neither the state nor the high score nor the
\* file and saves nothing; GAME_OVER is left only by a confirm, to PLAYING.
C3_CollisionEndsRun ==
    [][ /\ Tick /\ state = "PLAYING" =>
             /\ state' \in {"PLAYING", "GAME_OVER"}
             /\ state' = "GAME_OVER" <=>
                    \E i \in Active(obstacles') : SharePoint(player', obstacles'[i])
        /\ Tick /\ state = "GAME_OVER" =>
             /\ state' = "GAME_OVER"
             /\ highScore' = highScore
             /\ saves' = saves
             /\ file' = file
        /\ state = "GAME_OVER" /\ state' # "GAME_OVER" => Event /\ state' = "PLAYING"
      ]_vars

\* C3 witness: a tick has run in GAME_OVER (the title already showed
\* GAME_OVER before it) with the obstacle still on the player
C3_Witness ==
    /\ state = "GAME_OVER"
    /\ pc = "title"
    /\ title.state = "GAME_OVER"
    /\ \E i \in Active(obstacles) : SharePoint(player, obstacles[i])

\* C4: at PLAYING->GAME_OVER the high score becomes the final score of the
\* run exactly when that score is greater than it, and then save_high_score
\* is called once with it; otherwise (a tie included) the high score stays
\* and nothing is saved; no other step changes the high score or saves.
C4_HighScore ==
    [][ IF Tick /\ state = "PLAYING" /\ state' = "GAME_OVER"
        THEN IF score' > highScore
             THEN highScore' = score' /\ saves' = Append(saves, score')
             ELSE highScore' = highScore /\ saves' = saves
        ELSE highScore' = highScore /\ saves' = saves
      ]_vars

\* C4 witness: a run has ended with a score above the high score, which was
\* raised to it and saved once
C4_Witness ==
    /\ state = "GAME_OVER"
    /\ pc = "title"
    /\ score > 0
    /\ highScore = score
    /\ saves = <<score>>
    /\ title.high < score

\* C5: the player's x is always within [0, WINDOW_WIDTH - PLAYER_WIDTH], and
\* the dt of a frame within [0, 0.1 s].
C5_PlayerInBounds ==
    /\ 0 <= player.x
    /\ player.x <= (WINDOW_WIDTH - PLAYER_WIDTH) * PX
    /\ dt \in 0 .. MAX_DT_MS

\* C5 witness: a tick with move-left held has left the player at x = 0
C5_Witness ==
    /\ state = "PLAYING"
    /\ pc = "title"
    /\ leftPressed
    /\ ~rightPressed
    /\ player.x = 0
    /\ dt > 0

\* several whole frames taken as one step (FastForward)
Stretch == pc = "render" /\ pc' = "render"

\* C6: a tick in MENU, PAUSED or GAME_OVER leaves score, high score,
\* elapsedTime, spawnIntervalMs, lastSpawnTicks, the player and every
\* obstacle slot as they were, whatever dt and the held keys are, and saves
\* nothing; so does a stretch of frames while PAUSED.
C6_IdleTick ==
    [][ (Tick \/ Stretch) /\ state # "PLAYING" =>
            UNCHANGED <<sim, state, saves, file, leftPressed, rightPressed>>
      ]_vars

\* C6 witness: a tick has run while PAUSED with dt = 0.1 s, move-left held
\* and an obstacle on its way down
C6_Witness ==
    /\ state = "PAUSED"
    /\ pc = "title"
    /\ dt = MAX_DT_MS
    /\ leftPressed
    /\ \E i \in Active(obstacles) : obstacles[i].y > 0

\* the active slots whose y is beyond the screen height after an advance of d
OffScreen(obs, d) ==
    {i \in Active(obs) : obs[i].y + obs[i].speed * d > WINDOW_HEIGHT * PX}

\* slot i holds an obstacle as spawn_obstacle leaves it, not yet advanced
Fresh(o) == o.active /\ o.y + OBSTACLE_HEIGHT * PX = 0

\* C7: a tick of a run adds to the score the time points of dt and exactly
\* 10 for each active obstacle whose advanced y exceeds the screen height;
\* each of these is deactivated in that tick (its slot is inactive afterwards,
\* or holds a new obstacle spawned in the same tick), and every other active
\* obstacle stays active at its advanced y. Handling an event leaves the
\* score as it is or resets it to 0, a stretch of frames without a
\* bottom-out adds time points only, and no other step changes the score.
C7_DodgeBonus ==
    [][ /\ Tick /\ state = "PLAYING" =>
             /\ score' = score + time_points(dt)
                         + DODGE_BONUS * Cardinality(OffScreen(obstacles, dt))
             /\ \A i \in OffScreen(obstacles, dt) :
                    ~obstacles'[i].active \/ Fresh(obstacles'[i])
             /\ \A i \in Active(obstacles) \ OffScreen(obstacles, dt) :
                    /\ obstacles'[i].active
                    /\ obstacles'[i].y = obstacles[i].y + obstacles[i].speed * dt
        /\ Event => score' = score \/ (score' = 0 /\ Active(obstacles') = {})
        /\ Stretch => \E k \in Stretches \cup {0} :
                          score' = score + k * time_points(MAX_DT_MS)
        /\ ~Tick /\ ~Event /\ ~Stretch => score' = score
      ]_vars

\* C7 witness: the score of a run is at least 10 above its time points (20 a
\* second at the very most): an obstacle has bottomed out
C7_Witness ==
    /\ state = "PLAYING"
    /\ pc = "title"
    /\ score * 1000 >= elapsedTime * SCORE_PER_SECOND + DODGE_BONUS * 1000

\* C8: spawnIntervalMs is always within [OBSTACLE_MIN_INTERVAL,
\* OBSTACLE_BASE_INTERVAL]; while a run goes on it never increases; it
\* changes only in a spawn that found a slot (to the decayed value, floored
\* at the minimum, with lastSpawnTicks set to now and a new obstacle in a
\* slot) or in a run reset (to the base interval).
C8_SpawnInterval ==
    /\ [](/\ OBSTACLE_MIN_INTERVAL * MS <= spawnIntervalMs
          /\ spawnIntervalMs <= OBSTACLE_BASE_INTERVAL * MS)
    /\ [][ /\ state = "PLAYING" /\ state' = "PLAYING" /\ elapsedTime' >= elapsedTime =>
                spawnIntervalMs' <= spawnIntervalMs
           /\ spawnIntervalMs' # spawnIntervalMs =>
                \/ /\ spawnIntervalMs' = OBSTACLE_BASE_INTERVAL * MS
                   /\ elapsedTime' = 0
                   /\ state # "PLAYING"
                \/ /\ state = "PLAYING"
                   /\ LET d == (spawnIntervalMs * OBSTACLE_INTERVAL_DECAY) \div DECAY_DEN
                      IN  spawnIntervalMs' = IF d < OBSTACLE_MIN_INTERVAL * MS
                                             THEN OBSTACLE_MIN_INTERVAL * MS
                                             ELSE d
                   /\ lastSpawnTicks' = ticks'
                   /\ \E i \in Slots : Fresh(obstacles'[i]) /\ ~Fresh(obstacles[i])
         ]_vars

\* C8 witness: a run in which the interval has decayed down to the minimum
\* and the next spawn has been made at the minimum
C8_Witness ==
    /\ state = "PLAYING"
    /\ spawnIntervalMs = OBSTACLE_MIN_INTERVAL * MS
    /\ lastSpawnTicks = ticks
    /\ decay_interval(spawnIntervalMs) = spawnIntervalMs

\* C9: with every slot active spawn_obstacle returns the game as it got it;
\* a tick of a run that starts with every slot active and moves none off
\* the screen only advances the obstacles' y, leaves spawnIntervalMs and
\* lastSpawnTicks alone and adds nothing but time points to the score; the
\* number of active obstacles never exceeds MAX_OBSTACLES.
C9_FullPool ==
    /\ [](Cardinality(Active(obstacles)) <= MAX_OBSTACLES)
    /\ [][ /\ Active(obstacles) = Slots => spawn_obstacle(Game, ticks) = {Game}
           /\ /\ Tick
              /\ state = "PLAYING"
              /\ Active(obstacles) = Slots
              /\ OffScreen(obstacles, dt) = {}
              => /\ spawnIntervalMs' = spawnIntervalMs
                 /\ lastSpawnTicks' = lastSpawnTicks
                 /\ score' = score + time_points(dt)
                 /\ obstacles' = [i \in Slots |->
                        [obstacles[i] EXCEPT !.y = obstacles[i].y + obstacles[i].speed * dt]]
         ]_vars

\* C9 witness: a tick of a run has found a spawn due and every slot active,
\* and made none
C9_Witness ==
    /\ state = "PLAYING"
    /\ pc = "title"
    /\ Active(obstacles) = Slots
    /\ spawn_due(ticks, lastSpawnTicks, spawnIntervalMs)

\* what rects_intersect returns for the player and slot i
Hit(i) ==
    rects_intersect(player.x, player.y, player.w, player.h,
                    obstacles[i].x, obstacles[i].y, obstacles[i].w, obstacles[i].h)

\* C10 as stated: an active obstacle that touches the player exactly at an
\* edge, without interior overlap, is not reported by rects_intersect.
C10_Original ==
    \A i \in Active(obstacles) : EdgeTouch(player, obstacles[i]) => ~Hit(i)

\* C10 (amended): rects_intersect reports the player and an obstacle exactly
\* when their closed rectangles share a point, so rectangles that touch
\* exactly at an edge count as intersecting, and a tick of a run after which
\* an active obstacle touches the player at an edge ends in GAME_OVER.
C10_TouchingCollides ==
    /\ [](\A i \in Slots : Hit(i) <=> SharePoint(player, obstacles[i]))
    /\ [][ /\ Tick
           /\ state = "PLAYING"
           /\ \E i \in Active(obstacles') : EdgeTouch(player', obstacles'[i])
           => state' = "GAME_OVER"
         ]_vars

\* C10 witness: a run has ended on an obstacle that touches the player at
\* an edge, no active obstacle overlapping its interior
C10_Witness ==
    /\ state = "GAME_OVER"
    /\ pc = "title"
    /\ title.state = "PLAYING"
    /\ \E i \in Active(obstacles) : EdgeTouch(player, obstacles[i])
    /\ \A i \in Active(obstacles) : ~InteriorOverlap(player, obstacles[i])

\* the horizontal extents of p and o meet (the x comparisons of rects_intersect)
SameColumn(p, o) == o.x <= p.x + p.w /\ p.x <= o.x + o.w

\* in this step the obstacle of slot i goes from entirely above the player
\* to entirely below it
Tunnels(i) ==
    /\ obstacles[i].active
    /\ obstacles'[i].active
    /\ obstacles'[i].y = obstacles[i].y + obstacles[i].speed * dt'
    /\ SameColumn(player, obstacles[i])
    /\ SameColumn(player', obstacles'[i])
    /\ obstacles[i].y + obstacles[i].h < player.y
    /\ obstacles'[i].y > player'.y + player'.h

\* C11: no tick takes an obstacle in the player's column from entirely above
\* the player to entirely below it, whatever speed the spawn formula gave it.
C11_NoTunnel ==
    [][ \A i \in Slots : ~Tunnels(i) ]_vars

\* a step that holds a tick of a run in which no obstacle leaves the screen
\* (UpdateGame, or a whole frame taken as one step)
PlainTick ==
    /\ state = "PLAYING"
    /\ elapsedTime' = elapsedTime + dt'
    /\ dt' > 0
    /\ OffScreen(obstacles, dt') = {}

C13_TwentyPerSecond ==
    state = "PLAYING" /\ elapsedTime = 1000 => score = 20

\* a step other than a stretch puts a new obstacle into slot i
Spawned(i) ==
    /\ ~Stretch
    /\ Fresh(obstacles'[i])
    /\ ~obstacles[i].active \/ i \in OffScreen(obstacles, dt)
    /\ lastSpawnTicks' = ticks
    /\ Tick

\* o2 is o1 but for its y, moved down by d
Fallen(o1, o2, d) == o2 = [o1 EXCEPT !.y = o1.y + d]

\* C14: a new obstacle gets the speed BASE_SPEED + BASE_SPEED * 0.03 *
\* elapsedTime (in milli-pixels per second, elapsedTime in ms), which no
\* obstacle active with it exceeds; only a spawn changes the x, w, h or
\* speed of a slot; an obstacle that is active before and after a tick of a
\* run has only its y changed, by speed * dt, and one that bottoms out
\* without its slot being re-used has its y and active flag changed only;
\* over a stretch of frames an active obstacle only falls, by its speed.
C14_ObstacleFields ==
    [][ /\ \A i \in Slots :
             Spawned(i) =>
                 /\ obstacles'[i].speed * OBSTACLE_SPEED_INCREMENT_DEN =
                        OBSTACLE_BASE_SPEED * 1000 * OBSTACLE_SPEED_INCREMENT_DEN
                        + OBSTACLE_BASE_SPEED * OBSTACLE_SPEED_INCREMENT_NUM * elapsedTime'
                 /\ \A j \in Active(obstacles') :
                        obstacles'[j].speed <= obstacles'[i].speed
        /\ \A i \in Slots :
             ~Stretch /\ ~Spawned(i) =>
                 /\ obstacles'[i].x = obstacles[i].x
                 /\ obstacles'[i].w = obstacles[i].w
                 /\ obstacles'[i].h = obstacles[i].h
                 /\ obstacles'[i].speed = obstacles[i].speed
        /\ Tick /\ state = "PLAYING" =>
             /\ \A i \in Active(obstacles) \ OffScreen(obstacles, dt) :
                    Fallen(obstacles[i], obstacles'[i], obstacles[i].speed * dt)
             /\ \A i \in OffScreen(obstacles, dt) :
                    \/ Spawned(i)
                    \/ Fallen([obstacles[i] EXCEPT !.active = FALSE], obstacles'[i],
                              obstacles[i].speed * dt)
        /\ ~Tick /\ ~Stretch => \A i \in Slots : obstacles'[i].y = obstacles[i].y
        /\ Stretch =>
             \A i \in Active(obstacles) :
                 \E k \in Stretches \cup {0} :
                     Fallen(obstacles[i], obstacles'[i], k * obstacles[i].speed * MAX_DT_MS)
      ]_vars

\* C14 witness: in a run two obstacles are falling, the lower one spawned at
\* a smaller elapsedTime and slower, the upper one just spawned
C14_Witness ==
    /\ state = "PLAYING"
    /\ pc = "title"
    /\ \E i, j \in Active(obstacles) :
           /\ obstacles[i].y > 0
           /\ Fresh(obstacles[j])
           /\ obstacles[i].speed > OBSTACLE_BASE_SPEED * 1000
           /\ obstacles[i].speed < obstacles[j].speed

\* the order of the work of one frame
FrameOrder ==
    {<<"events", "update">>, <<"update", "title">>, <<"title", "render">>,
     <<"render", "loop">>, <<"loop", "done">>}

\* C15: ESCAPE (not a key repeat) and SDL_QUIT clear the running flag in
\* every state and change nothing else; the flag is never set again; once
\* it is clear the frame goes on in its order (the rest of its events, the
\* tick, which advances a run as any tick does, the title, the render), no
\* frame is started after it, and from the loop head the program only ends,
\* touching nothing; once ended it does nothing.
C15_Quit ==
    [][ /\ handle_key_down(Game, "ESCAPE", ticks) = [Game EXCEPT !.running = FALSE]
        /\ Event /\ running /\ ~running' =>
             UNCHANGED <<state, sim, leftPressed, rightPressed, file, saves, title>>
        /\ ~running =>
             /\ ~running'
             /\ frames' = frames
             /\ pc' # pc => <<pc, pc'>> \in FrameOrder
             /\ ~Stretch
             /\ Tick /\ state = "PLAYING" => elapsedTime' = elapsedTime + dt
             /\ pc = "title" => title' = [score |-> score, high |-> highScore, state |-> state]
             /\ pc = "loop" =>
                  /\ pc' = "done"
                  /\ UNCHANGED <<ticks, state, sim, leftPressed, rightPressed,
                                 file, saves, title>>
        /\ pc = "done" => UNCHANGED vars
      ]_vars

\* C15 witness: the program has ended after ESCAPE in a frame of a run with
\* dt = 0.1 s, the only such frame of the run: its tick was made and its
\* title shows the score of that tick
C15_Witness ==
    /\ pc = "done"
    /\ ~running
    /\ state = "PLAYING"
    /\ dt = MAX_DT_MS
    /\ elapsedTime = MAX_DT_MS
    /\ title = [score |-> time_points(MAX_DT_MS), high |-> highScore, state |-> "PLAYING"]

\* what save_high_score can leave in the file f when called with v: f as it
\* was (fopen failed), a short file (fwrite failed), or v
WriteOutcomes(f, v) == {f, ShortFile, IntFile(v)}

\* C16: at a game over with a score above the high score, each outcome of
\* the write (file untouched, file cut short, file written) is possible and
\* all leave the same memory: state GAME_OVER, high score = score, running
\* flag as it was; and in GAME_OVER, whatever the file holds, confirm starts
\* a run with score 0 and the high score kept.
C16_SoftWriteFailure ==
    /\ [](state = "GAME_OVER" =>
              LET g == handle_key_down(Game, "RETURN", ticks)
              IN  /\ g.state = "PLAYING"
                  /\ g.score = 0
                  /\ g.highScore = highScore
                  /\ g.running = running
                  /\ g.file = file)
    /\ [][ Tick /\ state = "PLAYING" /\ state' = "GAME_OVER" /\ score' > highScore =>
             /\ highScore' = score'
             /\ running' = running
             /\ file' \in WriteOutcomes(file, score')
             /\ \A f \in WriteOutcomes(file, score') :
                    [Game' EXCEPT !.file = f] \in update_game(Game, dt, ticks)
         ]_vars

\* C16 witness: a new run has been started after a game over whose high
\* score is in memory and not in the file
C16_Witness ==
    /\ state = "PLAYING"
    /\ pc = "events"
    /\ running
    /\ elapsedTime = 0
    /\ Len(saves) = 1
    /\ highScore = saves[1]
    /\ file # IntFile(highScore)

\* C17: the high score is never negative, whatever the high-score file held
\* at startup.
C17_NonNegativeHighScore ==
    highScore >= 0

\* slot m is the lowest-indexed slot of the set free
Lowest(m, free) == m \in free /\ \A j \in free : m <= j

\* C18: with a slot free, spawn_obstacle activates the lowest-indexed
\* inactive slot, with y = -OBSTACLE_HEIGHT, and leaves every other slot as
\* it was, for every draw of rand(); and a tick of a run that spawns puts
\* the new obstacle into the lowest-indexed slot among those inactive or
\* bottomed out in that tick, and into no other.
C18_FirstFit ==
    /\ [](\A r \in spawn_obstacle(Game, ticks) :
              Active(obstacles) # Slots =>
                  \E m \in Slots :
                      /\ Lowest(m, Slots \ Active(obstacles))
                      /\ Fresh(r.obstacles[m])
                      /\ Active(r.obstacles) = Active(obstacles) \cup {m}
                      /\ \A j \in Slots \ {m} : r.obstacles[j] = obstacles[j])
    /\ [][ \A i \in Slots :
             Spawned(i) =>
                 /\ Lowest(i, (Slots \ Active(obstacles)) \cup OffScreen(obstacles, dt))
                 /\ \A j \in Slots \ {i} : ~Spawned(j)
         ]_vars

\* C18 witness: a tick of a run has put a new obstacle into a slot below
\* that of an older obstacle still falling (the slot had been freed)
C18_Witness ==
    /\ state = "PLAYING"
    /\ pc = "title"
    /\ lastSpawnTicks = ticks
    /\ \E i, j \in Slots :
           /\ i < j
           /\ Fresh(obstacles[i])
           /\ obstacles[j].active
           /\ obstacles[j].y > 0
           /\ obstacles[j].speed < obstacles[i].speed

\* C19: a tick of a run spawns at most one obstacle, and it spawns one
\* exactly when the wall-clock time since lastSpawnTicks is at least
\* spawnIntervalMs and a slot is free after the obstacle update; entering
\* and leaving PAUSED and the ticks while PAUSED leave lastSpawnTicks as it
\* is, so the time spent paused counts.
C19_WallClockSpawnTimer ==
    [][ /\ Tick /\ state = "PLAYING" =>
             /\ Cardinality({i \in Slots : Spawned(i)}) <= 1
             /\ (\E i \in Slots : Spawned(i)) <=>
                    /\ (ticks - lastSpawnTicks) * MS >= spawnIntervalMs
                    /\ (Slots \ Active(obstacles)) \cup OffScreen(obstacles, dt) # {}
        /\ state = "PAUSED" \/ state' = "PAUSED" =>
             /\ lastSpawnTicks' = lastSpawnTicks
             /\ spawnIntervalMs' = spawnIntervalMs
             /\ elapsedTime' = elapsedTime
      ]_vars

\* C19 witness: the first tick after a pause (the title still shows PAUSED)
\* has spawned an obstacle, in a run whose elapsedTime is that tick's dt
\* only: all the wall-clock time since the start of the run, more than the
\* interval, went by in PAUSED
C19_Witness ==
    /\ state = "PLAYING"
    /\ pc = "title"
    /\ title.state = "PAUSED"
    /\ dt > 0
    /\ elapsedTime = dt
    /\ elapsedTime * MS < OBSTACLE_MIN_INTERVAL * MS
    /\ lastSpawnTicks = ticks
    /\ \E i \in Slots : Fresh(obstacles[i])

\* C20: in GAME_OVER the high score is at least the score, the final score
\* of the run that ended, which stays as the collision tick left it; and no
\* step lowers the high score.
C20_HighScoreDominates ==
    /\ [](state = "GAME_OVER" => highScore >= score)
    /\ [][ /\ highScore' >= highScore
           /\ state = "GAME_OVER" /\ state' = "GAME_OVER" => score' = score
         ]_vars

\* C20 witness: a run has ended below the high score read from the file,
\* which stands; the title of the frame before shows the run's score without
\* the points of the collision tick
C20_Witness ==
    /\ state = "GAME_OVER"
    /\ pc = "title"
    /\ saves = <<>>
    /\ score > 0
    /\ highScore > score
    /\ title.state = "PLAYING"
    /\ title.score < score

====
